---- MODULE Spec2Model ----
(***************************************************************************)
(* Model of mppp::complex (include/mp++/complex.hpp): the ownership,       *)
(* precision-propagation and view layer over the mpfr_t pair m_mpc.        *)
(*                                                                         *)
(* An mpfr_t struct is the record [prec, nan, neg, mag, d]: precision,     *)
(* value (NaN flag, sign, magnitude) and the limb pointer _mpfr_d (Null or *)
(* an allocation id).  A struct copy copies all of it, the limb storage is *)
(* the heap allocation d names.  Precisions are scaled down: the legal     *)
(* range is PrecMin..PrecMax and the built-in types' natural precisions    *)
(* are a few bits, so that rounding happens on small integers.             *)
(***************************************************************************)
EXTENDS Integers, FiniteSets, TLC

\* ---- bounds and scaled constants ----
PrecMin == 2
PrecMax == 4
MaxAlloc == 8

Objs == {1, 2}
Null == 0
AllocIds == 1..MaxAlloc
LegalPrecs == PrecMin..PrecMax
\* precisions a caller may pass: the legal ones and one on either side
ArgPrecs == (PrecMin - 1)..(PrecMax + 1)
\* magnitudes of the operands
InMags == {0, 5}

c_max(a, b) == IF a < b THEN b ELSE a
c_min(a, b) == IF a < b THEN a ELSE b

\* ---- the real-number representation (mpfr) ----
RECURSIVE NBits(_)
NBits(n) == IF n = 0 THEN 0 ELSE 1 + NBits(n \div 2)

RECURSIVE Pow2(_)
Pow2(k) == IF k = 0 THEN 1 ELSE 2 * Pow2(k - 1)

\* MPFR_RNDN on a non-negative integer: keep p significant bits, round to
\* nearest, ties to the even significand
RoundMag(m, p) ==
    IF NBits(m) <= p THEN m
    ELSE LET s == NBits(m) - p
             q == m \div Pow2(s)
             r == m % Pow2(s)
             half == Pow2(s - 1)
             up == r > half \/ (r = half /\ q % 2 = 1)
         IN  (IF up THEN q + 1 ELSE q) * Pow2(s)

real_prec_check(p) == PrecMin <= p /\ p <= PrecMax

\* natural precision of the built-in types (scaled), clamped to the legal range
NatPrec(kind) ==
    LET digits == IF kind = "int" THEN 3 ELSE 4
    IN  c_max(c_min(digits, PrecMax), PrecMin)

\* operands: real-valued interoperable values, complex-valued ones, strings
IntOperands ==
    {[kind |-> "int", nan |-> FALSE, neg |-> n, mag |-> m, prec |-> NatPrec("int")] :
        <<n, m>> \in {<<FALSE, 0>>, <<FALSE, 5>>, <<TRUE, 5>>}}
DblOperands ==
    {[kind |-> "dbl", nan |-> FALSE, neg |-> n, mag |-> m, prec |-> NatPrec("dbl")] :
        <<n, m>> \in {<<FALSE, 0>>, <<TRUE, 0>>, <<FALSE, 5>>}}
RealOperands ==
    {[kind |-> "real", nan |-> FALSE, neg |-> FALSE, mag |-> RoundMag(m, p), prec |-> p] :
        <<m, p>> \in InMags \X LegalPrecs}
RVOperands == IntOperands \cup DblOperands \cup RealOperands
\* std::complex<double>: real() and imag() are doubles
CVOperands == [re : DblOperands, im : DblOperands]
\* strings carry a value and no precision; ok is whether the numeral parses
StrOperands ==
    {[kind |-> "str", ok |-> k, nan |-> FALSE, neg |-> FALSE, mag |-> m, prec |-> 0] :
        <<k, m>> \in {<<TRUE, 5>>, <<FALSE, 0>>}}

real_deduce_precision(x) == x.prec

\* the value a struct holds
ValOf(r) == [nan |-> r.nan, neg |-> r.neg, mag |-> r.mag]
\* x converted at precision p
Conv(x, p) == [nan |-> x.nan, neg |-> x.neg, mag |-> RoundMag(x.mag, p)]
PlusZero == [nan |-> FALSE, neg |-> FALSE, mag |-> 0]
NaNVal == [nan |-> TRUE, neg |-> FALSE, mag |-> 0]
IsZero(r) == ~r.nan /\ r.mag = 0

MkReal(p, v, d) == [prec |-> p, nan |-> v.nan, neg |-> v.neg, mag |-> v.mag, d |-> d]
NullReal == MkReal(PrecMin, PlusZero, Null)

\* ---- the heap: mem = [live: the live allocations, faults] ----
EmptyMem == [live |-> {}, faults |-> {}]
NewId(mem) == CHOOSE i \in AllocIds \ mem.live : \A j \in AllocIds \ mem.live : i <= j
Alloc(mem, i) == [mem EXCEPT !.live = @ \cup {i}]
Free(mem, i) ==
    IF i \in mem.live THEN [mem EXCEPT !.live = @ \ {i}]
    ELSE [mem EXCEPT !.faults = @ \cup {"double_free"}]
HasRoom(mem, n) == Cardinality(mem.live) + n <= MaxAlloc

\* ---- operations of mppp::real (real.hpp) used by complex ----
\* real{x, p}: checks p, allocates, converts x at precision p; a string that
\* does not parse fails after the precision check
RealCtor(mem, x, p) ==
    IF ~real_prec_check(p) \/ (x.kind = "str" /\ ~x.ok)
    THEN [ok |-> FALSE, r |-> NullReal, mem |-> mem]
    ELSE LET i == NewId(mem)
         IN  [ok |-> TRUE, r |-> MkReal(p, Conv(x, p), i), mem |-> Alloc(mem, i)]

\* real{real_kind::zero, 1, p}: +0 at precision p
RealZero(mem, p) ==
    IF ~real_prec_check(p)
    THEN [ok |-> FALSE, r |-> NullReal, mem |-> mem]
    ELSE LET i == NewId(mem)
         IN  [ok |-> TRUE, r |-> MkReal(p, PlusZero, i), mem |-> Alloc(mem, i)]

\* ~real(): releases the limbs unless _mpfr_d is null
RealDtor(mem, r) == IF r.d = Null THEN mem ELSE Free(mem, r.d)

\* the limb storage after a change of precision to p: it may move (mv) when
\* the precision grows, the old block is then released
Regrow(mem, r, p, mv) ==
    IF mv /\ p > r.prec
    THEN LET i == NewId(mem) IN [d |-> i, mem |-> Free(Alloc(mem, i), r.d)]
    ELSE [d |-> r.d, mem |-> mem]

\* mpfr_set_prec: precision p, the value is lost (NaN)
mpfr_set_prec(mem, r, p, mv) ==
    LET g == Regrow(mem, r, p, mv)
    IN  [r |-> MkReal(p, NaNVal, g.d), mem |-> g.mem]

\* mpfr_prec_round: precision p, the value rounded to it
mpfr_prec_round(mem, r, p, mv) ==
    LET g == Regrow(mem, r, p, mv)
    IN  [r |-> MkReal(p, Conv(r, p), g.d), mem |-> g.mem]

\* real::set(x): the value of x rounded to the current precision
real_set(r, x) == MkReal(r.prec, Conv(x, r.prec), r.d)

\* real::set_zero() / mpfr_set_zero(.., 1): +0, precision kept
real_set_zero(r) == MkReal(r.prec, PlusZero, r.d)

\* real::operator=(x): precision becomes the one deduced from x, then the value
real_assign(mem, r, x, mv) ==
    LET s == mpfr_set_prec(mem, r, real_deduce_precision(x), mv)
    IN  [r |-> real_set(s.r, x), mem |-> s.mem]

\* real::set_prec(p) through a view: checked, then mpfr_set_prec
real_set_prec(mem, r, p, mv) ==
    IF ~real_prec_check(p) THEN [ok |-> FALSE, r |-> r, mem |-> mem]
    ELSE LET a == mpfr_set_prec(mem, r, p, mv)
         IN  [ok |-> TRUE, r |-> a.r, mem |-> a.mem]

\* real::neg(): flips the sign
real_neg(r) == IF r.nan THEN r ELSE [r EXCEPT !.neg = ~@]

\* ---- mppp::complex ----
\* _mpfr_d = nullptr on a real
Deactivate(r) == [r EXCEPT !.d = Null]

NoObj == [st |-> "none", re |-> NullReal, im |-> NullReal]
MkObj(re, im) == [st |-> "alive", re |-> re, im |-> im]
Failed(mem) == [ok |-> FALSE, c |-> NoObj, mem |-> mem]

\* mutant: the temporaries are not deactivated, their destructors release
\* the storage the object now holds
gtag_rv_ctor_NoDeactivate(mem, x, hasPrec, p) ==
    LET re == RealCtor(mem, x, IF hasPrec THEN p ELSE real_deduce_precision(x))
    IN  IF ~re.ok THEN Failed(re.mem)
        ELSE
        LET im == RealZero(re.mem, IF hasPrec THEN p ELSE re.r.prec)
        IN  IF ~im.ok THEN Failed(RealDtor(im.mem, re.r))
            ELSE [ok |-> TRUE, c |-> MkObj(re.r, im.r),
                  mem |-> RealDtor(RealDtor(im.mem, im.r), re.r)]

\* mutant: the imaginary part always takes the precision deduced from x
gtag_rv_ctor_ImNatural(mem, x, hasPrec, p) ==
    LET re == RealCtor(mem, x, IF hasPrec THEN p ELSE real_deduce_precision(x))
    IN  IF ~re.ok THEN Failed(re.mem)
        ELSE
        LET im == RealZero(re.mem, real_deduce_precision(x))
        IN  IF ~im.ok THEN Failed(RealDtor(im.mem, re.r))
            ELSE [ok |-> TRUE, c |-> MkObj(re.r, im.r),
                  mem |-> RealDtor(RealDtor(im.mem, Deactivate(im.r)), Deactivate(re.r))]

\* mutant: without an explicit precision the imaginary part is created at
\* the minimum precision
gtag_rv_ctor_ImMin(mem, x, hasPrec, p) ==
    LET re == RealCtor(mem, x, IF hasPrec THEN p ELSE real_deduce_precision(x))
    IN  IF ~re.ok THEN Failed(re.mem)
        ELSE
        LET im == RealZero(re.mem, IF hasPrec THEN p ELSE PrecMin)
        IN  IF ~im.ok THEN Failed(RealDtor(im.mem, re.r))
            ELSE [ok |-> TRUE, c |-> MkObj(re.r, im.r),
                  mem |-> RealDtor(RealDtor(im.mem, Deactivate(im.r)), Deactivate(re.r))]

\* complex(gtag, std::true_type, x, args...): from a real-valued x
gtag_rv_ctor(mem, x, hasPrec, p) ==
    LET re == RealCtor(mem, x, IF hasPrec THEN p ELSE real_deduce_precision(x))
    IN  IF ~re.ok THEN Failed(re.mem)
        ELSE
        LET im == RealZero(re.mem, IF hasPrec THEN p ELSE re.r.prec)
        IN  IF ~im.ok THEN Failed(RealDtor(im.mem, re.r))
            ELSE
            LET c == MkObj(re.r, im.r)
                re2 == Deactivate(re.r)
                im2 == Deactivate(im.r)
            IN  [ok |-> TRUE, c |-> c, mem |-> RealDtor(RealDtor(im.mem, im2), re2)]

\* real_imag_ctor_impl(re, im, p)
real_imag_ctor_impl(mem, re, im, p) ==
    LET rp == RealCtor(mem, re, p)
    IN  IF ~rp.ok THEN Failed(rp.mem)
        ELSE
        LET ip == RealCtor(rp.mem, im, p)
        IN  IF ~ip.ok THEN Failed(RealDtor(ip.mem, rp.r))
            ELSE
            LET c == MkObj(rp.r, ip.r)
                rp2 == Deactivate(rp.r)
                ip2 == Deactivate(ip.r)
            IN  [ok |-> TRUE, c |-> c, mem |-> RealDtor(RealDtor(ip.mem, ip2), rp2)]

\* mutant: the explicit precision is ignored
binary_ctor_IgnorePrec(mem, re, im, hasPrec, p) ==
    real_imag_ctor_impl(mem, re, im,
        c_max(real_deduce_precision(re), real_deduce_precision(im)))

\* mutant: the precision is deduced from the real operand alone
binary_ctor_DeduceRe(mem, re, im, hasPrec, p) ==
    real_imag_ctor_impl(mem, re, im,
        IF hasPrec THEN p ELSE real_deduce_precision(re))

\* complex(re, im) and complex(re, im, complex_prec_t p)
binary_ctor(mem, re, im, hasPrec, p) ==
    real_imag_ctor_impl(mem, re, im,
        IF hasPrec THEN p
        ELSE c_max(real_deduce_precision(re), real_deduce_precision(im)))

\* complex(gtag, std::false_type, c, args...): delegates to the binary ctor
gtag_cv_ctor(mem, c, hasPrec, p) == binary_ctor(mem, c.re, c.im, hasPrec, p)

is_valid(c) == c.re.d # Null

\* ---- views: re_ref / im_ref / re_cref / im_cref ----
\* the constructor takes a shallow copy of the part's struct
view_acquire(c, part) == c[part]
\* mutant: the snapshot is not written back
ref_release_NoWriteBack(mem, c, part, v) ==
    [c |-> c, mem |-> RealDtor(mem, Deactivate(v))]

\* mutant: the snapshot is written to both parts
ref_release_BothParts(mem, c, part, v) ==
    [c |-> [c EXCEPT !.re = v, !.im = v], mem |-> RealDtor(mem, Deactivate(v))]

\* ~re_ref / ~im_ref: write the struct back, null the view's pointer, then
\* the member m_value is destroyed
ref_release(mem, c, part, v) ==
    [c |-> [c EXCEPT ![part] = v], mem |-> RealDtor(mem, Deactivate(v))]
\* mutant: the pointer is not nulled, the member's destructor releases the
\* storage the view borrowed
cref_release_Frees(mem, c, part, v) ==
    [c |-> c, mem |-> RealDtor(mem, v)]

\* ~re_cref / ~im_cref: null the view's pointer only
cref_release(mem, c, part, v) ==
    [c |-> c, mem |-> RealDtor(mem, Deactivate(v))]

\* mutant: the imaginary part is zeroed at its old precision
assign_rv_NoImPrec(mem, c, x, mv1, mv2) ==
    LET re0 == view_acquire(c, "re")
        im0 == view_acquire(c, "im")
        a == real_assign(mem, re0, x, mv1)
        im1 == real_set_zero(im0)
        r1 == ref_release(a.mem, c, "im", im1)
    IN  ref_release(r1.mem, r1.c, "re", a.r)

\* dispatch_generic_assignment(x, std::true_type)
assign_rv(mem, c, x, mv1, mv2) ==
    LET re0 == view_acquire(c, "re")
        im0 == view_acquire(c, "im")
        a == real_assign(mem, re0, x, mv1)
        b == mpfr_set_prec(a.mem, im0, a.r.prec, mv2)
        im1 == real_set_zero(b.r)
        r1 == ref_release(b.mem, c, "im", im1)
    IN  ref_release(r1.mem, r1.c, "re", a.r)

\* mutant: the precision of the imaginary part is not set
assign_cv_NoImPrec(mem, c, x, mv1, mv2) ==
    LET p == c_max(real_deduce_precision(x.re), real_deduce_precision(x.im))
        re0 == view_acquire(c, "re")
        im0 == view_acquire(c, "im")
        a == mpfr_set_prec(mem, re0, p, mv1)
        re1 == real_set(a.r, x.re)
        im1 == real_set(im0, x.im)
        r1 == ref_release(a.mem, c, "im", im1)
    IN  ref_release(r1.mem, r1.c, "re", re1)

\* mutant: the values are set at the precision the object already has
assign_cv_NoSetPrec(mem, c, x, mv1, mv2) ==
    LET re0 == view_acquire(c, "re")
        im0 == view_acquire(c, "im")
        re1 == real_set(re0, x.re)
        im1 == real_set(im0, x.im)
        r1 == ref_release(mem, c, "im", im1)
    IN  ref_release(r1.mem, r1.c, "re", re1)

\* dispatch_generic_assignment(c, std::false_type)
assign_cv(mem, c, x, mv1, mv2) ==
    LET p == c_max(real_deduce_precision(x.re), real_deduce_precision(x.im))
        re0 == view_acquire(c, "re")
        im0 == view_acquire(c, "im")
        a == mpfr_set_prec(mem, re0, p, mv1)
        b == mpfr_set_prec(a.mem, im0, p, mv2)
        re1 == real_set(a.r, x.re)
        im1 == real_set(b.r, x.im)
        r1 == ref_release(b.mem, c, "im", im1)
    IN  ref_release(r1.mem, r1.c, "re", re1)

\* mutant: the real part is assigned, taking the precision deduced from x
set_rv_Assign(mem, c, x) ==
    LET re0 == view_acquire(c, "re")
        a == real_assign(mem, re0, x, FALSE)
        c1 == [c EXCEPT !.im = real_set_zero(@)]
    IN  ref_release(a.mem, c1, "re", a.r)

\* set_impl(x, std::true_type)
set_rv(mem, c, x) ==
    LET re0 == view_acquire(c, "re")
        re1 == real_set(re0, x)
        c1 == [c EXCEPT !.im = real_set_zero(@)]
    IN  ref_release(mem, c1, "re", re1)

\* set_impl(c, std::false_type)
set_cv(mem, c, x) ==
    LET re0 == view_acquire(c, "re")
        im0 == view_acquire(c, "im")
        re1 == real_set(re0, x.re)
        im1 == real_set(im0, x.im)
        r1 == ref_release(mem, c, "im", im1)
    IN  ref_release(r1.mem, r1.c, "re", re1)

\* mutant: the precision is not checked
check_set_prec_Never(p) == FALSE

\* check_init_prec / check_set_prec: TRUE when the call throws
check_set_prec_throws(p) == ~real_prec_check(p)

\* set_prec_impl<true>(p): mpc_set_prec on both parts after the check
set_prec_impl(mem, c, p, mv1, mv2) ==
    IF check_set_prec_throws(p) THEN [ok |-> FALSE, c |-> c, mem |-> mem]
    ELSE LET a == mpfr_set_prec(mem, c.re, p, mv1)
             b == mpfr_set_prec(a.mem, c.im, p, mv2)
         IN  [ok |-> TRUE, c |-> [c EXCEPT !.re = a.r, !.im = b.r], mem |-> b.mem]

\* prec_round_impl<true>(p)
prec_round_impl(mem, c, p, mv1, mv2) ==
    IF check_set_prec_throws(p) THEN [ok |-> FALSE, c |-> c, mem |-> mem]
    ELSE LET a == mpfr_prec_round(mem, c.re, p, mv1)
             b == mpfr_prec_round(a.mem, c.im, p, mv2)
         IN  [ok |-> TRUE, c |-> [c EXCEPT !.re = a.r, !.im = b.r], mem |-> b.mem]

\* mutant: the source is not marked moved-from
move_ctor_NoInvalidate(other) == [this |-> other, other |-> other]

\* complex(complex &&other): [this, other] after the move
move_ctor(other) ==
    [this |-> other, other |-> [other EXCEPT !.re = Deactivate(@)]]

\* mutant: the target takes the source's struct, the source keeps it
move_assign_Copy(this, other) == [this |-> other, other |-> other]

\* operator=(complex &&other): std::swap(m_mpc, other.m_mpc)
move_assign(this, other) == [this |-> other, other |-> this]

\* ~complex(): mpc_clear when valid
complex_dtor(mem, c) ==
    IF is_valid(c) THEN Free(Free(mem, c.re.d), c.im.d) ELSE mem

\* ---- comparison ----
\* real == x (real.hpp): the values are compared exactly; a NaN equals
\* nothing, the two zeros are equal
real_eq(r, x) ==
    /\ ~r.nan /\ ~x.nan
    /\ r.mag = x.mag
    /\ (r.mag = 0 \/ r.neg = x.neg)

mpfr_zero_p(r) == IsZero(r)

\* the static type of an operand: a complex object, a real-valued
\* interoperable value, or a complex-valued one (std::complex)
is_complex(a) == "st" \in DOMAIN a
is_rv_complex_interoperable(x) ==
    "kind" \in DOMAIN x /\ x.kind \in {"int", "dbl", "real"}

\* mutant: the imaginary part is not looked at
dispatch_complex_equality_rv_ReOnly(mem, c, x) ==
    LET rex == view_acquire(c, "re")
        res == real_eq(rex, x)
        r1 == cref_release(mem, c, "re", rex)
    IN  [res |-> res, c |-> r1.c, mem |-> r1.mem]

\* dispatch_complex_equality(c, x), x real-valued
dispatch_complex_equality_rv(mem, c, x) ==
    LET rex == view_acquire(c, "re")
        res == mpfr_zero_p(c.im) /\ real_eq(rex, x)
        r1 == cref_release(mem, c, "re", rex)
    IN  [res |-> res, c |-> r1.c, mem |-> r1.mem]

\* mutant: equal as soon as one of the parts is
dispatch_complex_equality_cv_Either(mem, c1, c2) ==
    LET rex == view_acquire(c1, "re")
        iex == view_acquire(c1, "im")
        res == real_eq(rex, c2.re) \/ real_eq(iex, c2.im)
        r1 == cref_release(mem, c1, "im", iex)
        r2 == cref_release(r1.mem, r1.c, "re", rex)
    IN  [res |-> res, c |-> r2.c, mem |-> r2.mem]

\* dispatch_complex_equality(c1, c2), c2 complex-valued; the views are
\* destroyed in the reverse order of their construction
dispatch_complex_equality_cv(mem, c1, c2) ==
    LET rex == view_acquire(c1, "re")
        iex == view_acquire(c1, "im")
        res == real_eq(rex, c2.re) /\ real_eq(iex, c2.im)
        r1 == cref_release(mem, c1, "im", iex)
        r2 == cref_release(r1.mem, r1.c, "re", rex)
    IN  [res |-> res, c |-> r2.c, mem |-> r2.mem]

\* the overload is selected by the operand's type
dispatch_complex_equality(mem, c, x) ==
    IF is_rv_complex_interoperable(x)
    THEN dispatch_complex_equality_rv(mem, c, x)
    ELSE dispatch_complex_equality_cv(mem, c, x)

\* dispatch_complex_equality(x, c): the operands exchanged
dispatch_complex_equality_swapped(mem, x, c) == dispatch_complex_equality(mem, c, x)

\* operator==(x, y), one of the operands a complex
operator_eq(mem, a, b) ==
    IF is_complex(a) THEN dispatch_complex_equality(mem, a, b)
    ELSE dispatch_complex_equality_swapped(mem, a, b)

\* mutant: the result of == is returned as it is
operator_ne_NotNegated(mem, a, b) == operator_eq(mem, a, b)

\* operator!=(x, y): !(x == y)
operator_ne(mem, a, b) == [operator_eq(mem, a, b) EXCEPT !.res = ~@]

\* ---- state ----
\* objs: the complex objects (st "none": no object in the slot);
\* mem: the heap; views: the views alive on each object's parts;
\* last: the last operation, its arguments and whether it returned (ok) or threw
VARIABLES objs, mem, views, last
vars == <<objs, mem, views, last>>

NoView == [mode |-> "none", v |-> NullReal]
NoViews(o) == views[o].re.mode = "none" /\ views[o].im.mode = "none"
NoArg == [kind |-> "none"]
Parts == {"re", "im"}
\* an optional explicit precision: <<hasPrec, p>>
PrecArgs == {<<FALSE, 0>>} \cup {<<TRUE, p>> : p \in ArgPrecs}
\* operands of the binary constructors
BinOperands ==
    {x \in IntOperands : x.neg} \cup {x \in DblOperands : x.neg}
    \cup {x \in RealOperands : x.mag # 0 /\ x.prec \in {PrecMin, PrecMax}}

Last(op, o, src, x, hp, p, ok) ==
    [op |-> op, obj |-> o, src |-> src, part |-> "-", x |-> x, hasPrec |-> hp,
     p |-> p, ok |-> ok]
LastV(op, o, part, x, hp, p, ok) ==
    [op |-> op, obj |-> o, src |-> 0, part |-> part, x |-> x, hasPrec |-> hp,
     p |-> p, ok |-> ok]

\* a comparison: form is the expression evaluated, res its value
LastC(o, form, x, res) ==
    [op |-> "compare", obj |-> o, src |-> 0, part |-> "-", x |-> x, hasPrec |-> FALSE,
     p |-> 0, ok |-> TRUE, form |-> form, res |-> res]

Alive(o) == objs[o].st = "alive"
Valid(o) == Alive(o) /\ is_valid(objs[o])
Usable(o) == Valid(o) /\ NoViews(o)

Init ==
    /\ objs = [o \in Objs |-> NoObj]
    /\ mem = EmptyMem
    /\ views = [o \in Objs |-> [re |-> NoView, im |-> NoView]]
    /\ last = Last("init", 0, 0, NoArg, FALSE, 0, TRUE)

\* Allocation ids mean nothing but identity.  Every step ends by renaming
\* them in the order in which the objects' and views' structs first refer to
\* them (unreferenced live blocks last), so that states differing only in the
\* addresses the allocator happened to return are one state.
SlotPtr(ob, vw, k) ==
    LET o == ((k - 1) \div 4) + 1
        j == (k - 1) % 4
    IN  IF j = 0 THEN ob[o].re.d
        ELSE IF j = 1 THEN ob[o].im.d
        ELSE IF j = 2 THEN vw[o].re.v.d
        ELSE vw[o].im.v.d
Slots == 1..(4 * Cardinality(Objs))
Renaming(ob, m, vw) ==
    LET ptr == [k \in Slots |-> SlotPtr(ob, vw, k)]
        refs == {ptr[k] : k \in Slots} \ {Null}
        first == [i \in refs |-> CHOOSE k \in Slots :
                                    ptr[k] = i /\ \A j \in 1..(k - 1) : ptr[j] # i]
        rank == [i \in refs |-> Cardinality({ptr[j] : j \in 1..first[i]} \ {Null})]
        rest == m.live \ refs
    IN  [i \in refs \cup rest \cup {Null} |->
            IF i = Null THEN Null
            ELSE IF i \in refs THEN rank[i]
            ELSE Cardinality(refs) + Cardinality({j \in rest : j <= i})]

\* the step's outcome: the new objects, heap, views and operation record
Commit(ob, m, vw, l) ==
    \E st \in {[ob |-> ob, m |-> m, vw |-> vw, ren |-> Renaming(ob, m, vw)]} :
        LET rr(r) == [r EXCEPT !.d = st.ren[@]]
        IN  /\ objs' = [o \in Objs |-> [st.ob[o] EXCEPT !.re = rr(@), !.im = rr(@)]]
            /\ mem' = [st.m EXCEPT !.live = {st.ren[i] : i \in @}]
            /\ views' = [o \in Objs |-> [re |-> [st.vw[o].re EXCEPT !.v = rr(@)],
                                         im |-> [st.vw[o].im EXCEPT !.v = rr(@)]]]
            /\ last' = l

\* a constructor's outcome r = [ok, c, mem] on slot o
Construct(o, r, l) ==
    Commit([objs EXCEPT ![o] = r.c], r.mem, views, [l EXCEPT !.ok = r.ok])

\* a member function's outcome on object o
Update(o, c, m, l) == Commit([objs EXCEPT ![o] = c], m, views, l)

\* a view operation's outcome on the view of part of o
UpdateView(o, part, v, m, l) ==
    Commit(objs, m, [views EXCEPT ![o][part].v = v], l)

NViews == Cardinality({<<o, part>> \in Objs \X Parts : views[o][part].mode # "none"})

\* X: the operands drawn, PA: the optional precisions drawn
CtorRV(o, X, PA) ==
    /\ objs[o].st = "none" /\ HasRoom(mem, 2)
    /\ \E x \in X, pa \in PA :
          Construct(o, gtag_rv_ctor(mem, x, pa[1], pa[2]),
                    Last("ctor_rv", o, 0, x, pa[1], pa[2], TRUE))

CtorCV(o, X, PA) ==
    /\ objs[o].st = "none" /\ HasRoom(mem, 2)
    /\ \E x \in X, pa \in PA :
          Construct(o, gtag_cv_ctor(mem, x, pa[1], pa[2]),
                    Last("ctor_cv", o, 0, x, pa[1], pa[2], TRUE))

\* strings (XS) are accepted with an explicit precision only
CtorBinary(o, X, XS, PA) ==
    /\ objs[o].st = "none" /\ HasRoom(mem, 2)
    /\ \E pa \in PA :
          \E re, im \in (IF pa[1] THEN X \cup XS ELSE X) :
             Construct(o, binary_ctor(mem, re, im, pa[1], pa[2]),
                       Last("ctor_bin", o, 0, [re |-> re, im |-> im], pa[1], pa[2], TRUE))

MoveCtor(o, s) ==
    /\ o # s /\ objs[o].st = "none" /\ Usable(s)
    /\ LET r == move_ctor(objs[s])
       IN  Commit([objs EXCEPT ![o] = r.this, ![s] = r.other], mem, views,
                  Last("move_ctor", o, s, NoArg, FALSE, 0, TRUE))

MoveAssign(o, s) ==
    /\ o # s /\ Alive(o) /\ NoViews(o) /\ Usable(s)
    /\ LET r == move_assign(objs[o], objs[s])
       IN  Commit([objs EXCEPT ![o] = r.this, ![s] = r.other], mem, views,
                  Last("move_assign", o, s, NoArg, FALSE, 0, TRUE))

Destroy(o) ==
    /\ Alive(o) /\ NoViews(o)
    /\ Update(o, NoObj, complex_dtor(mem, objs[o]),
              Last("dtor", o, 0, NoArg, FALSE, 0, TRUE))

AssignRV(o, X) ==
    /\ Usable(o) /\ HasRoom(mem, 2)
    /\ \E x \in X, mv1, mv2 \in BOOLEAN :
          LET r == assign_rv(mem, objs[o], x, mv1, mv2)
          IN  Update(o, r.c, r.mem, Last("assign_rv", o, 0, x, FALSE, 0, TRUE))

AssignCV(o, X) ==
    /\ Usable(o) /\ HasRoom(mem, 2)
    /\ \E x \in X, mv1, mv2 \in BOOLEAN :
          LET r == assign_cv(mem, objs[o], x, mv1, mv2)
          IN  Update(o, r.c, r.mem, Last("assign_cv", o, 0, x, FALSE, 0, TRUE))

SetRV(o, X) ==
    /\ Usable(o)
    /\ \E x \in X :
          LET r == set_rv(mem, objs[o], x)
          IN  Update(o, r.c, r.mem, Last("set_rv", o, 0, x, FALSE, 0, TRUE))

SetCV(o, X) ==
    /\ Usable(o)
    /\ \E x \in X :
          LET r == set_cv(mem, objs[o], x)
          IN  Update(o, r.c, r.mem, Last("set_cv", o, 0, x, FALSE, 0, TRUE))

SetPrec(o, P) ==
    /\ Usable(o) /\ HasRoom(mem, 2)
    /\ \E p \in P, mv1, mv2 \in BOOLEAN :
          LET r == set_prec_impl(mem, objs[o], p, mv1, mv2)
          IN  Update(o, r.c, r.mem, Last("set_prec", o, 0, NoArg, TRUE, p, r.ok))

PrecRound(o, P) ==
    /\ Usable(o) /\ HasRoom(mem, 2)
    /\ \E p \in P, mv1, mv2 \in BOOLEAN :
          LET r == prec_round_impl(mem, objs[o], p, mv1, mv2)
          IN  Update(o, r.c, r.mem, Last("prec_round", o, 0, NoArg, TRUE, p, r.ok))

\* c == x, x == c, c != x, x != c
Forms == {"c==x", "x==c", "c!=x", "x!=c"}
Compare(o, X) ==
    /\ Usable(o)
    /\ \E x \in X, form \in Forms :
          LET a == IF form \in {"c==x", "c!=x"} THEN objs[o] ELSE x
              b == IF form \in {"c==x", "c!=x"} THEN x ELSE objs[o]
              r == IF form \in {"c==x", "x==c"} THEN operator_eq(mem, a, b)
                   ELSE operator_ne(mem, a, b)
          IN  Update(o, r.c, r.mem, LastC(o, form, x, r.res))

\* re_ref{c} / im_ref{c} (mode "rw"), re_cref{c} / im_cref{c} (mode "ro");
\* at most maxv views are alive at once
ViewAcquire(o, part, mode, maxv) ==
    /\ Valid(o) /\ views[o][part].mode = "none" /\ NViews < maxv
    /\ Commit(objs, mem,
              [views EXCEPT ![o][part] =
                  [mode |-> mode, v |-> view_acquire(objs[o], part)]],
              LastV("view_acquire", o, part, [kind |-> mode], FALSE, 0, TRUE))

\* view->neg()
ViewNeg(o, part) ==
    /\ views[o][part].mode = "rw"
    /\ UpdateView(o, part, real_neg(views[o][part].v), mem,
                  LastV("view_neg", o, part, NoArg, FALSE, 0, TRUE))

\* view->set_prec(p)
ViewSetPrec(o, part, P) ==
    /\ views[o][part].mode = "rw" /\ HasRoom(mem, 2)
    /\ \E p \in P, mv \in BOOLEAN :
          LET r == real_set_prec(mem, views[o][part].v, p, mv)
          IN  UpdateView(o, part, r.r, r.mem,
                         LastV("view_set_prec", o, part, NoArg, TRUE, p, r.ok))

\* *view = x
ViewAssign(o, part, X) ==
    /\ views[o][part].mode = "rw" /\ HasRoom(mem, 2)
    /\ \E x \in X, mv \in BOOLEAN :
          LET r == real_assign(mem, views[o][part].v, x, mv)
          IN  UpdateView(o, part, r.r, r.mem,
                         LastV("view_assign", o, part, x, FALSE, 0, TRUE))

\* the view goes out of scope
ViewRelease(o, part) ==
    /\ views[o][part].mode # "none"
    /\ LET v == views[o][part]
           r == IF v.mode = "rw" THEN ref_release(mem, objs[o], part, v.v)
                ELSE cref_release(mem, objs[o], part, v.v)
       IN  Commit([objs EXCEPT ![o] = r.c], r.mem,
                  [views EXCEPT ![o][part] = NoView],
                  LastV("view_release", o, part, [kind |-> v.mode], FALSE, 0, TRUE))

\* ---- Spec: one object, no caller-held views, the full operand sets ----
Next ==
    \/ CtorRV(1, RVOperands, PrecArgs)
    \/ CtorCV(1, CVOperands, PrecArgs)
    \/ CtorBinary(1, BinOperands, StrOperands, PrecArgs)
    \/ Destroy(1)
    \/ AssignRV(1, RVOperands)
    \/ AssignCV(1, CVOperands)
    \/ SetRV(1, RVOperands)
    \/ SetCV(1, CVOperands)
    \/ SetPrec(1, ArgPrecs)
    \/ PrecRound(1, ArgPrecs)

Spec == Init /\ [][Next]_vars

\* ---- SpecView: one object with caller-held views, small operand sets ----
SmallRV == {x \in IntOperands : x.mag # 0 /\ ~x.neg}
SmallCV == {x \in CVOperands : x.re.mag # 0 /\ x.im.mag # 0}
SmallStr == {x \in StrOperands : ~x.ok}
SmallPrecArgs == {<<FALSE, 0>>, <<TRUE, PrecMax>>, <<TRUE, PrecMax + 1>>}
SmallPrecs == {PrecMax, PrecMax + 1}
MaxViews == 2

NextView ==
    \/ CtorRV(1, SmallRV, SmallPrecArgs)
    \/ CtorCV(1, SmallCV, SmallPrecArgs)
    \/ Destroy(1)
    \/ AssignRV(1, SmallRV)
    \/ AssignCV(1, SmallCV)
    \/ SetRV(1, SmallRV)
    \/ SetCV(1, SmallCV)
    \/ \E part \in Parts, mode \in {"rw", "ro"} : ViewAcquire(1, part, mode, MaxViews)
    \/ \E part \in Parts : ViewNeg(1, part)
    \/ \E part \in Parts : ViewSetPrec(1, part, SmallPrecs)
    \/ \E part \in Parts : ViewAssign(1, part, SmallRV)
    \/ \E part \in Parts : ViewRelease(1, part)

SpecView == Init /\ [][NextView]_vars

\* ---- SpecEq: one object, comparisons and read-only views ----
EqPrecArgs == {<<FALSE, 0>>, <<TRUE, PrecMin>>, <<TRUE, PrecMax>>}
NextEq ==
    \/ CtorRV(1, RVOperands, EqPrecArgs)
    \/ CtorCV(1, CVOperands, EqPrecArgs)
    \/ SetPrec(1, {PrecMax})
    \/ Destroy(1)
    \/ Compare(1, RVOperands \cup CVOperands)
    \/ \E part \in Parts : ViewAcquire(1, part, "ro", MaxViews)
    \/ \E part \in Parts : ViewRelease(1, part)

SpecEq == Init /\ [][NextEq]_vars

\* ---- SpecOwn: two objects and the moves, small operand sets ----
NextOwn ==
    \/ \E o \in Objs : CtorRV(o, SmallRV, SmallPrecArgs)
    \/ \E o \in Objs : CtorCV(o, SmallCV, SmallPrecArgs)
    \/ \E o \in Objs : CtorBinary(o, SmallRV, SmallStr, SmallPrecArgs)
    \/ \E o, s \in Objs : MoveCtor(o, s)
    \/ \E o, s \in Objs : MoveAssign(o, s)
    \/ \E o \in Objs : Destroy(o)
    \/ \E o \in Objs : AssignCV(o, SmallCV)
    \/ \E o \in Objs, part \in Parts, mode \in {"rw", "ro"} : ViewAcquire(o, part, mode, 1)
    \/ \E o \in Objs, part \in Parts : ViewSetPrec(o, part, SmallPrecs)
    \/ \E o \in Objs, part \in Parts : ViewRelease(o, part)

SpecOwn == Init /\ [][NextOwn]_vars

\* ---- properties ----
PrecEq(o) == objs[o].re.prec = objs[o].im.prec
\* the precision a part has for its owner: the snapshot's while a read-write
\* view holds it, the slot's otherwise
EffPrec(ob, vw, o, part) ==
    IF vw[o][part].mode = "rw" THEN vw[o][part].v.prec ELSE ob[o][part].prec
EffPrecEq(ob, vw, o) ==
    (ob[o].st = "alive" /\ is_valid(ob[o])) =>
        EffPrec(ob, vw, o, "re") = EffPrec(ob, vw, o, "im")
\* same value and precision in both parts
SameVal(c1, c2) ==
    /\ c1.re.prec = c2.re.prec /\ ValOf(c1.re) = ValOf(c2.re)
    /\ c1.im.prec = c2.im.prec /\ ValOf(c1.im) = ValOf(c2.im)

C2_MoveCtor ==
    [][last'.op = "move_ctor" =>
          /\ ~is_valid(objs'[last'.src])
          /\ objs'[last'.obj].st = "alive" /\ is_valid(objs'[last'.obj])
          /\ SameVal(objs'[last'.obj], objs[last'.src])
          /\ {objs'[last'.obj].re.d, objs'[last'.obj].im.d} \subseteq mem'.live]_vars

C2_Witness ==
    /\ last.op = "move_ctor"
    /\ Valid(last.obj) /\ Alive(last.src) /\ ~Valid(last.src)
    /\ objs[last.obj].re.mag # 0 /\ objs[last.obj].im.mag # 0

\* C3 as stated: after b = move(a), b has a's prior value and precision and a
\* is not valid, whether b was valid or moved-from
C3_Original ==
    [][last'.op = "move_assign" =>
          /\ SameVal(objs'[last'.obj], objs[last'.src])
          /\ ~is_valid(objs'[last'.src])]_vars

\* C3 amended: after b = move(a), b has a's prior value and precision and a
\* has b's prior representation: a is not valid exactly when b was moved-from
\* before the assignment, otherwise a is valid and holds b's prior value
C3_MoveAssignSwaps ==
    [][last'.op = "move_assign" =>
          /\ SameVal(objs'[last'.obj], objs[last'.src])
          /\ is_valid(objs'[last'.obj])
          /\ SameVal(objs'[last'.src], objs[last'.obj])
          /\ is_valid(objs'[last'.src]) <=> is_valid(objs[last'.obj])]_vars

\* C3 witness: a move assignment after which the source is still valid
C3_Witness ==
    /\ last.op = "move_assign" /\ Valid(last.obj) /\ Valid(last.src)
    /\ ~SameVal(objs[last.obj], objs[last.src])

\* C4: nothing is released twice, and the live allocations are exactly the
\* part representations of the valid objects, each held by one part only (by
\* the snapshot of the part's read-write view while one is alive)
OwnerPtr(o, part) ==
    IF views[o][part].mode = "rw" THEN views[o][part].v.d ELSE objs[o][part].d
OwnerSlots == {<<o, part>> \in Objs \X Parts : Valid(o)}
C4_SingleOwner ==
    /\ mem.faults = {}
    /\ {OwnerPtr(sl[1], sl[2]) : sl \in OwnerSlots} = mem.live
    /\ \A s1, s2 \in OwnerSlots :
          OwnerPtr(s1[1], s1[2]) = OwnerPtr(s2[1], s2[2]) => s1 = s2
    /\ \A o \in Objs, part \in Parts :
          views[o][part].mode = "ro" => views[o][part].v.d = objs[o][part].d

\* C4 witness: a move assignment into a moved-from object left the source
\* moved-from, and the two live allocations belong to the target
C4_Witness ==
    /\ last.op = "move_assign"
    /\ Valid(last.obj) /\ Alive(last.src) /\ ~Valid(last.src)
    /\ Cardinality(mem.live) = 2

CtorOps == {"ctor_rv", "ctor_cv", "ctor_bin"}
PrecOps == {"set_prec", "prec_round"}
\* the operand parts of the last constructor or assignment parse
Parses(x) == x.kind # "str" \/ x.ok
BothPrecs(o, p) == objs[o].re.prec = p /\ objs[o].im.prec = p

\* C5: a construction with an explicit precision outside
\* [real_prec_min(), real_prec_max()], and a checked set_prec or prec_round
\* with such a precision, throws and changes neither the objects nor the
\* heap: no object is built, a valid receiver keeps value and precision
C5_IllegalPrecRejected ==
    [][(last'.op \in CtorOps \cup PrecOps /\ last'.hasPrec
        /\ ~(PrecMin <= last'.p /\ last'.p <= PrecMax))
       => (~last'.ok /\ objs' = objs /\ mem' = mem)]_vars

\* C5 witness: set_prec with an illegal precision threw on a valid object
\* that holds a nonzero value
C5_Witness ==
    /\ last.op = "set_prec" /\ ~last.ok /\ last.p > PrecMax
    /\ Valid(1) /\ objs[1].re.mag # 0 /\ ~objs[1].re.nan

\* C6: a construction with a legal explicit precision p from a real-valued
\* x, a complex-valued x or a pair of real-valued or string parts succeeds
\* when the strings parse, and whenever it succeeds both parts have
\* precision p
C6_ExplicitPrec ==
    (last.op \in CtorOps /\ last.hasPrec) =>
        /\ last.ok => (Valid(last.obj) /\ BothPrecs(last.obj, last.p))
        /\ (/\ PrecMin <= last.p /\ last.p <= PrecMax
            /\ last.op = "ctor_bin" => (Parses(last.x.re) /\ Parses(last.x.im)))
           => last.ok

\* C6 witness: built from a string and a real of another precision
C6_Witness ==
    /\ last.op = "ctor_bin" /\ last.hasPrec /\ last.ok
    /\ last.x.re.kind = "str" /\ last.x.im.kind = "real" /\ last.x.im.prec # last.p
    /\ BothPrecs(1, last.p)

\* C7: without an explicit precision the binary constructor, and the
\* constructor from a complex-valued x through it, give both parts the
\* larger of the two operands' natural precisions
C7_DeducedPrec ==
    (last.op \in {"ctor_bin", "ctor_cv"} /\ ~last.hasPrec) =>
        /\ last.ok /\ Valid(last.obj)
        /\ BothPrecs(last.obj,
                     IF last.x.re.prec >= last.x.im.prec
                     THEN last.x.re.prec ELSE last.x.im.prec)

\* C7 witness: the imaginary operand has the larger natural precision
C7_Witness ==
    /\ last.op = "ctor_bin" /\ ~last.hasPrec /\ last.ok
    /\ last.x.re.prec < last.x.im.prec
    /\ BothPrecs(1, last.x.im.prec)

\* C8: a composite built from a real-valued x has imaginary part +0, real
\* part x converted at the chosen precision (the explicit one, else the
\* natural precision of x), and both parts at that precision
C8_RealCtor ==
    (last.op = "ctor_rv" /\ last.ok) =>
        LET q == IF last.hasPrec THEN last.p ELSE last.x.prec
            c == objs[last.obj]
        IN  /\ Valid(last.obj)
            /\ ValOf(c.im) = PlusZero
            /\ c.re.nan = last.x.nan /\ c.re.neg = last.x.neg
            /\ c.re.mag = RoundMag(last.x.mag, q)
            /\ c.re.prec = q /\ c.im.prec = c.re.prec

\* C8 witness: 5 built at a precision of two bits is rounded
C8_Witness ==
    /\ last.op = "ctor_rv" /\ last.ok /\ last.hasPrec
    /\ last.x.mag = 5 /\ objs[1].re.mag = 4 /\ IsZero(objs[1].im)

\* C9: after the assignment of a real-valued x the real part is x, the
\* imaginary part is +0 and both parts have the natural precision of x
C9_AssignReal ==
    last.op = "assign_rv" =>
        LET c == objs[last.obj]
        IN  /\ Valid(last.obj)
            /\ ValOf(c.re) = [nan |-> last.x.nan, neg |-> last.x.neg, mag |-> last.x.mag]
            /\ ValOf(c.im) = PlusZero
            /\ c.re.prec = last.x.prec /\ c.im.prec = c.re.prec

\* C9 witness: the integer 5 was assigned
C9_Witness ==
    /\ last.op = "assign_rv" /\ last.x.kind = "int" /\ last.x.mag = 5
    /\ objs[1].re.mag = 5 /\ IsZero(objs[1].im) /\ BothPrecs(1, NatPrec("int"))

\* C10: after the assignment of a complex-valued x both parts have the
\* larger of the natural precisions of x.real and x.imag, and hold x.real
\* and x.imag converted at that precision
C10_AssignComplex ==
    last.op = "assign_cv" =>
        LET q == IF last.x.re.prec >= last.x.im.prec
                 THEN last.x.re.prec ELSE last.x.im.prec
            c == objs[last.obj]
        IN  /\ Valid(last.obj)
            /\ BothPrecs(last.obj, q)
            /\ ValOf(c.re) = [nan |-> last.x.re.nan, neg |-> last.x.re.neg,
                              mag |-> RoundMag(last.x.re.mag, q)]
            /\ ValOf(c.im) = [nan |-> last.x.im.nan, neg |-> last.x.im.neg,
                              mag |-> RoundMag(last.x.im.mag, q)]

\* C10 witness: (5, -0) was assigned
C10_Witness ==
    /\ last.op = "assign_cv" /\ last.x.re.mag = 5 /\ last.x.im.neg
    /\ objs[1].re.mag = 5 /\ objs[1].im.neg /\ IsZero(objs[1].im)
    /\ BothPrecs(1, NatPrec("dbl"))

\* C11: comparing a valid composite c with a real-valued r, c == r and
\* r == c are true exactly when the imaginary part of c is zero and its real
\* part equals r; when the imaginary part is not zero, c != r and r != c are
\* true whatever r is
C11_EqualsReal ==
    (last.op = "compare" /\ is_rv_complex_interoperable(last.x)) =>
        LET c == objs[last.obj]
            eq == IsZero(c.im) /\ real_eq(c.re, last.x)
        IN  /\ last.form \in {"c==x", "x==c"} => (last.res <=> eq)
            /\ (last.form \in {"c!=x", "x!=c"} /\ ~IsZero(c.im)) => last.res

\* C11 witness: r == c was found true for a real r whose precision differs
\* from that of c, whose real part is not zero
C11_Witness ==
    /\ last.op = "compare" /\ last.form = "x==c" /\ last.res
    /\ is_rv_complex_interoperable(last.x) /\ last.x.kind = "real"
    /\ last.x.mag # 0 /\ last.x.prec # objs[1].re.prec
    /\ IsZero(objs[1].im)

\* C12: comparing a valid composite c with a complex-valued z, c == z is
\* true exactly when the real part of c equals the real component of z and
\* the imaginary part of c equals the imaginary component of z; this is the
\* comparison made for every operand of a complex-valued type, whatever
\* values its components have
C12_EqualsComplex ==
    (last.op = "compare" /\ ~is_rv_complex_interoperable(last.x)
     /\ last.form = "c==x") =>
        LET c == objs[last.obj]
        IN  last.res <=> (real_eq(c.re, last.x.re) /\ real_eq(c.im, last.x.im))

\* C12 witness: c == z was found true for a z with a non-zero imaginary
\* component
C12_Witness ==
    /\ last.op = "compare" /\ last.form = "c==x" /\ last.res
    /\ ~is_rv_complex_interoperable(last.x)
    /\ last.x.im.mag # 0 /\ last.x.re.mag # 0

\* C13: with the composite on the right, x == c gives what c == x gives on
\* the same operands, and c != x and x != c give the negation of c == x
C13_SymmetricNegated ==
    last.op = "compare" =>
        LET direct == operator_eq(mem, objs[last.obj], last.x).res
        IN  /\ last.form = "x==c" => (last.res <=> direct)
            /\ last.form \in {"c!=x", "x!=c"} => (last.res <=> ~direct)

\* C13 witness: x != c was found true for an integer x that the real part of
\* c holds rounded, the imaginary part being zero
C13_Witness ==
    /\ last.op = "compare" /\ last.form = "x!=c" /\ last.res
    /\ is_rv_complex_interoperable(last.x) /\ last.x.kind = "int"
    /\ IsZero(objs[1].im) /\ ~objs[1].re.nan
    /\ objs[1].re.mag = RoundMag(last.x.mag, objs[1].re.prec)
    /\ objs[1].re.mag # last.x.mag

OtherPart(part) == IF part = "re" THEN "im" ELSE "re"
\* same value and precision
SamePart(r1, r2) == r1.prec = r2.prec /\ ValOf(r1) = ValOf(r2)

\* C14: when a read-write view of one part is released, that part of the
\* composite has the value and the precision the view's snapshot had, the
\* other part has the value and precision it had before, the view is gone
\* and its release freed nothing: the storage the part now points to is
\* live and no allocation was released
C14_ViewRoundTrip ==
    [][\A o \in Objs, part \in Parts :
          (last'.op = "view_release" /\ last'.obj = o /\ last'.part = part
           /\ last'.x.kind = "rw") =>
              /\ SamePart(objs'[o][part], views[o][part].v)
              /\ SamePart(objs'[o][OtherPart(part)], objs[o][OtherPart(part)])
              /\ views'[o][part] = NoView
              /\ objs'[o][part].d \in mem'.live
              /\ Cardinality(mem'.live) = Cardinality(mem.live)
              /\ mem'.faults = {}]_vars

\* C14 witness: a read-write view of the imaginary part was released after
\* its precision was changed through the view
C14_Witness ==
    /\ last.op = "view_release" /\ last.x.kind = "rw" /\ last.part = "im"
    /\ Valid(1) /\ NoViews(1)
    /\ objs[1].im.prec # objs[1].re.prec /\ objs[1].im.nan /\ ~objs[1].re.nan

\* C15: acquiring and releasing a read-only view, and every comparison
\* (which takes read-only views of the parts it reads), leave the composite's
\* parts, their precisions, their storage and the heap as they were; a
\* comparison leaves no view behind
C15_ReadOnlyFrame ==
    [][((last'.op \in {"view_acquire", "view_release"} /\ last'.x.kind = "ro")
        \/ last'.op = "compare") =>
          /\ objs' = objs
          /\ mem' = mem
          /\ last'.op = "compare" => views' = views
          /\ last'.op = "view_release" => views'[last'.obj][last'.part] = NoView]_vars

\* C15 witness: the last read-only view of a composite with a non-zero
\* imaginary part was released and both parts still own live storage
C15_Witness ==
    /\ last.op = "view_release" /\ last.x.kind = "ro" /\ last.part = "im"
    /\ Valid(1) /\ NoViews(1) /\ objs[1].im.mag # 0
    /\ objs[1].re.d \in mem.live /\ objs[1].im.d \in mem.live
    /\ objs[1].re.d # objs[1].im.d /\ mem.faults = {}

\* C16: read-write views of the two parts do not interfere.  Releasing the
\* read-write view of one part while a read-write view of the other part is
\* alive gives the composite's part the released snapshot's value and
\* precision and leaves the other view's snapshot and the other part as they
\* were; releasing the remaining view then gives its part its snapshot and
\* leaves the part released first as it was, both parts owning distinct live
\* storage
C16_TwoViews ==
    [][\A o \in Objs, part \in Parts :
          (last'.op = "view_release" /\ last'.obj = o /\ last'.part = part
           /\ last'.x.kind = "rw") =>
              LET q == OtherPart(part)
              IN  /\ views[o][q].mode = "rw" =>
                        /\ SamePart(objs'[o][part], views[o][part].v)
                        /\ views'[o][q].mode = "rw"
                        /\ SamePart(views'[o][q].v, views[o][q].v)
                        /\ SamePart(objs'[o][q], objs[o][q])
                  /\ views[o][q].mode = "none" =>
                        /\ SamePart(objs'[o][part], views[o][part].v)
                        /\ SamePart(objs'[o][q], objs[o][q])
                        /\ {objs'[o].re.d, objs'[o].im.d} \subseteq mem'.live
                        /\ objs'[o].re.d # objs'[o].im.d]_vars

\* C16 witness: the read-write view of the imaginary part, negated, was
\* released while the read-write view of the real part, whose snapshot no
\* longer has the real part's value or precision, is still alive
C16_Witness ==
    /\ last.op = "view_release" /\ last.x.kind = "rw" /\ last.part = "im"
    /\ views[1].re.mode = "rw" /\ ~SamePart(views[1].re.v, objs[1].re)
    /\ objs[1].im.neg /\ objs[1].im.mag # 0

\* C17: set(x) on a valid composite keeps the precision of both parts; for a
\* real-valued x the real part becomes x rounded to that precision and the
\* imaginary part +0, for a complex-valued x the parts become its real and
\* imaginary components rounded to that precision; the heap is untouched
C17_SetKeepsPrec ==
    [][\A o \in Objs :
          (last'.op \in {"set_rv", "set_cv"} /\ last'.obj = o) =>
              LET p == objs[o].re.prec
                  x == last'.x
              IN  /\ objs[o].im.prec = p
                  /\ objs'[o].re.prec = p /\ objs'[o].im.prec = p
                  /\ last'.op = "set_rv" =>
                        /\ ValOf(objs'[o].re) = Conv(x, p)
                        /\ ValOf(objs'[o].im) = PlusZero
                  /\ last'.op = "set_cv" =>
                        /\ ValOf(objs'[o].re) = Conv(x.re, p)
                        /\ ValOf(objs'[o].im) = Conv(x.im, p)
                  /\ mem' = mem]_vars

\* C17 witness: set(x) with a real-valued x of a larger precision stored x
\* rounded to the composite's precision
C17_Witness ==
    /\ last.op = "set_rv" /\ Valid(1)
    /\ last.x.prec > objs[1].re.prec
    /\ objs[1].re.mag # last.x.mag /\ objs[1].re.mag = RoundMag(last.x.mag, objs[1].re.prec)
    /\ objs[1].im.prec = objs[1].re.prec /\ ValOf(objs[1].im) = PlusZero

\* C18: after c = x with a real-valued x, the valid composite c has the
\* state of a composite freshly constructed from x without an explicit
\* precision: the same value and precision in the real part, the same zero
\* and precision in the imaginary part, and two distinct live allocations
C18_AssignAsConstruct ==
    \A o \in Objs :
        (last.op = "assign_rv" /\ last.obj = o) =>
            LET fresh == gtag_rv_ctor(EmptyMem, last.x, FALSE, 0)
            IN  /\ fresh.ok
                /\ SameVal(objs[o], fresh.c)
                /\ is_valid(objs[o]) = is_valid(fresh.c)
                /\ {objs[o].re.d, objs[o].im.d} \subseteq mem.live
                /\ (objs[o].re.d = objs[o].im.d) = (fresh.c.re.d = fresh.c.im.d)
                /\ Cardinality(mem.live) = Cardinality(fresh.mem.live)
                /\ mem.faults = fresh.mem.faults

\* C18 witness: a real of the minimum precision was assigned and the
\* composite has that precision in both parts
C18_Witness ==
    /\ last.op = "assign_rv" /\ last.x.kind = "real" /\ last.x.mag # 0
    /\ last.x.prec = PrecMin /\ last.x.prec # NatPrec("dbl")
    /\ BothPrecs(1, PrecMin) /\ ValOf(objs[1].re) = ValOf(last.x)
====
